---- MODULE Spec2Model ----
(***************************************************************************)
(* Model of maps_enhancer.py (class MapsEnhancer): the organisation-name   *)
(* cleaner, the opening-hours summariser, the place search with its        *)
(* follow-up details request, and the CSV enrichment run.                  *)
(*                                                                         *)
(* Python strings that the code takes apart (names, close times, URLs) are *)
(* sequences of one-character strings.  Python dicts are functions whose   *)
(* domain is the set of keys present.                                      *)
(***************************************************************************)
EXTENDS Integers, Sequences, FiniteSets, TLC

VARIABLES
    c_in,       \* _clean_org_name: the name given to the first call
    c_out,      \* _clean_org_name: results of the successive calls
    h_in,       \* _get_operating_hours: the opening_hours argument
    h_out,      \* _get_operating_hours: outcome of the call
    sp_in,      \* search_place: org_name and location arguments
    sp_out,     \* search_place: outcome of the call, with the requests issued
    pc,         \* process_csv / __init__: position of the run
    test_mode,  \* process_csv: the test_mode argument
    input,      \* the rows of the input CSV file
    df,         \* process_csv: the DataFrame
    idx,        \* process_csv: number of DataFrame rows already iterated
    searched,   \* row indexes for which search_place was called
    writes,     \* the to_csv calls made, in order, with their outcome
    exc         \* the exception that left process_csv / __init__, if any

vars == <<c_in, c_out, h_in, h_out, sp_in, sp_out,
          pc, test_mode, input, df, idx, searched, writes, exc>>

cleanVars == <<c_in, c_out>>
hoursVars == <<h_in, h_out>>
searchVars == <<sp_in, sp_out>>
runVars == <<pc, test_mode, input, df, idx, searched, writes, exc>>

(***************************************************************************)
(* Bounds                                                                  *)
(***************************************************************************)
MaxNameLen == 6
MaxPeriods == 3
MaxRows == 6

(***************************************************************************)
(* Characters and Python string helpers                                    *)
(***************************************************************************)
LowerLetters == {"a","b","c","d","e","f","g","h","i","j","k","l","m",
                 "n","o","p","q","r","s","t","u","v","w","x","y","z"}

UpperToLower == [A |-> "a", B |-> "b", C |-> "c", D |-> "d", E |-> "e",
                 F |-> "f", G |-> "g", H |-> "h", I |-> "i", J |-> "j",
                 K |-> "k", L |-> "l", M |-> "m", N |-> "n", O |-> "o",
                 P |-> "p", Q |-> "q", R |-> "r", S |-> "s", T |-> "t",
                 U |-> "u", V |-> "v", W |-> "w", X |-> "x", Y |-> "y",
                 Z |-> "z"]

UpperLetters == DOMAIN UpperToLower

Digits == {"0","1","2","3","4","5","6","7","8","9"}

\* str.lower() / re.IGNORECASE folding of one character
Lower(c) == IF c \in UpperLetters THEN UpperToLower[c] ELSE c

\* \s of the re module
IsSpace(c) == c \in {" ", "\t", "\n", "\r"}

\* \w of the re module
IsWord(c) == c \in LowerLetters \cup UpperLetters \cup Digits \cup {"_"}

\* s[a:b] with 1-based inclusive bounds, empty when out of range
Slice(s, a, b) == IF a > b THEN <<>> ELSE SubSeq(s, a, b)

\* str.strip()
Strip(s) ==
    LET keep == {i \in 1..Len(s) : ~IsSpace(s[i])}
    IN  IF keep = {} THEN <<>>
        ELSE LET lo == CHOOSE i \in keep : \A j \in keep : i <= j
                 hi == CHOOSE i \in keep : \A j \in keep : j <= i
             IN  SubSeq(s, lo, hi)

\* str.startswith(prefix)
StartsWith(s, prefix) ==
    /\ Len(prefix) <= Len(s)
    /\ \A i \in 1..Len(prefix) : s[i] = prefix[i]

(***************************************************************************)
(* _clean_org_name                                                         *)
(***************************************************************************)
\* the alternation of the suffixes pattern, folded to lower case
Suffixes == { <<"l","l","c">>,
              <<"i","n","c">>,
              <<"c","o","r","p","o","r","a","t","i","o","n">>,
              <<"c","o","r","p">>,
              <<"l","t","d">>,
              <<"l","i","m","i","t","e","d">>,
              <<"c","o">>,
              <<"c","o","m","p","a","n","y">>,
              <<"g","r","o","u","p">>,
              <<"h","o","l","d","i","n","g","s">>,
              <<"s","e","r","v","i","c","e","s">> }

\* the pattern \s*(LLC|...)\.?\s*$ matches s from position p to the end
SuffixMatchesFrom(s, p) ==
    \E k \in p..Len(s) :
        /\ \A j \in p..(k-1) : IsSpace(s[j])
        /\ \E t \in Suffixes :
              /\ k + Len(t) - 1 <= Len(s)
              /\ \A j \in 1..Len(t) : Lower(s[k+j-1]) = t[j]
              /\ LET e == k + Len(t)
                 IN  \E d \in {0, 1} :
                        /\ d = 1 => (e <= Len(s) /\ s[e] = ".")
                        /\ \A j \in (e+d)..Len(s) : IsSpace(s[j])

\* re.sub(suffixes, '', s, flags=re.IGNORECASE): the leftmost match runs to
\* the end of the string, so it is the only one
StripSuffix(s) ==
    LET starts == {p \in 1..Len(s) : SuffixMatchesFrom(s, p)}
    IN  IF starts = {} THEN s
        ELSE LET p == CHOOSE q \in starts : \A r \in starts : q <= r
             IN  Slice(s, 1, p - 1)

\* re.sub(r'[^\w\s-]', ' ', s)
ReplaceSpecial(s) ==
    IF s = <<>> THEN <<>> ELSE
    [i \in 1..Len(s) |->
        IF IsWord(s[i]) \/ IsSpace(s[i]) \/ s[i] = "-" THEN s[i] ELSE " "]

\* ' '.join(s.split())
RECURSIVE CollapseSpaces(_)
CollapseSpaces(s) ==
    IF s = <<>> THEN <<>>
    ELSE IF IsSpace(Head(s)) THEN CollapseSpaces(Tail(s))
    ELSE LET stops == {i \in 1..Len(s) : IsSpace(s[i])}
             n == IF stops = {} THEN Len(s)
                  ELSE (CHOOSE i \in stops : \A j \in stops : i <= j) - 1
             rest == CollapseSpaces(Slice(s, n + 1, Len(s)))
         IN  IF rest = <<>> THEN SubSeq(s, 1, n)
             ELSE SubSeq(s, 1, n) \o <<" ">> \o rest

CleanOrgName(org_name) ==
    CollapseSpaces(ReplaceSpecial(StripSuffix(Strip(org_name))))

(***************************************************************************)
(* _get_operating_hours                                                    *)
(***************************************************************************)
\* None where a string (a sequence of characters) is expected
NoneS == <<"None">>

\* d.get(k, default) for a dict d
Get(d, k, default) == IF k \in DOMAIN d THEN d[k] ELSE default

\* the empty dict {}
EmptyDict == [k \in {} |-> TRUE]

\* period.get('open', {}).get('day'), -1 standing for None
OpenDay(period) == Get(Get(period, "open", EmptyDict), "day", -1)

\* f"{close_time[:2]}:{close_time[2:]}"
FormatClose(close_time) ==
    Slice(close_time, 1, IF Len(close_time) < 2 THEN Len(close_time) ELSE 2)
        \o <<":">> \o Slice(close_time, 3, Len(close_time))

\* variant of FirstPeriodOf that keeps the last matching period of the day
\* (an inner loop without its break)
FirstPeriodOfNoBreak(periods, day) ==
    LET hits == {i \in 1..Len(periods) :
                    OpenDay(periods[i]) = day /\ "close" \in DOMAIN periods[i]}
    IN  IF hits = {} THEN 0
        ELSE CHOOSE i \in hits : \A j \in hits : j <= i

\* inner loop of the weekday scan: index of the first period, in list order,
\* with period.get('open', {}).get('day') == day and 'close' in period; 0 if
\* there is none
FirstPeriodOf(periods, day) ==
    LET hits == {i \in 1..Len(periods) :
                    OpenDay(periods[i]) = day /\ "close" \in DOMAIN periods[i]}
    IN  IF hits = {} THEN 0
        ELSE CHOOSE i \in hits : \A j \in hits : i <= j

\* outer loop "for day in range(1, 6)" from the given day on; the result is
\* the weekday_close, or a KeyError when the period found has no 'time'
RECURSIVE WeekdayScan(_, _)
WeekdayScan(periods, day) ==
    IF day > 5 THEN [raised |-> FALSE, weekday_close |-> NoneS]
    ELSE LET i == FirstPeriodOf(periods, day)
         IN  IF i = 0 THEN WeekdayScan(periods, day + 1)
             ELSE IF "time" \notin DOMAIN periods[i].close
                  THEN [raised |-> TRUE, weekday_close |-> NoneS]
                  ELSE [raised |-> FALSE,
                        weekday_close |-> FormatClose(periods[i].close.time)]

\* the weekend loop and the weekend_status it determines
WeekendStatus(periods) ==
    LET saturday_open == \E i \in 1..Len(periods) : OpenDay(periods[i]) = 6
        sunday_open == \E i \in 1..Len(periods) : OpenDay(periods[i]) = 0
    IN  IF saturday_open /\ sunday_open THEN "Operational"
        ELSE IF saturday_open THEN "Sat"
        ELSE IF sunday_open THEN "Sun"
        ELSE "Not Operational"

\* opening_hours is [isNone |-> BOOLEAN, d |-> dict]; "not opening_hours"
\* holds of None and of the empty dict
GetOperatingHours(opening_hours) ==
    IF opening_hours.isNone \/ DOMAIN opening_hours.d = {}
       \/ "periods" \notin DOMAIN opening_hours.d
    THEN [raised |-> FALSE, weekday_close |-> NoneS, weekend_status |-> "None"]
    ELSE LET periods == opening_hours.d.periods
             scan == WeekdayScan(periods, 1)
         IN  IF scan.raised
             THEN [raised |-> TRUE, weekday_close |-> NoneS,
                   weekend_status |-> "None"]
             ELSE [raised |-> FALSE, weekday_close |-> scan.weekday_close,
                   weekend_status |-> WeekendStatus(periods)]

(***************************************************************************)
(* search_place                                                            *)
(***************************************************************************)
\* None where a pass-through API value (an atomic string) is expected
None == "None"

\* dict.update(other)
Update(d, other) ==
    [k \in DOMAIN d \cup DOMAIN other |->
        IF k \in DOMAIN other THEN other[k] ELSE d[k]]

\* what search_place returns: None, or the place dict; requests is the list
\* of HTTP requests the call has issued, in order
ReturnNone(requests) ==
    [found |-> FALSE, place |-> EmptyDict, requests |-> requests]

ReturnPlace(place, requests) ==
    [found |-> TRUE, place |-> place, requests |-> requests]

SearchRequest(query) ==
    [url |-> "textsearch", query |-> query, place_id |-> NoneS]

DetailsRequest(place_id) ==
    [url |-> "details", query |-> NoneS, place_id |-> place_id]

\* an HTTP exchange: requests.get raises, or answers with a status code and
\* a body that response.json() parses (into the dict body) or not
Raises(resp) == resp.raises
StatusCode(resp) == resp.status_code
JsonRaises(resp) == ~resp.parses

\* "result.get('status') != 'OK' or not result.get('results')"
NoPlacesFound(result) ==
    \/ Get(result, "status", None) # "OK"
    \/ Get(result, "results", <<>>) = <<>>

\* variant of DetailsStep that asks once more after a non-200 answer
DetailsStepRetry(place, details_resp, requests) ==
    LET issued == Append(requests, DetailsRequest(place.place_id))
    IN  IF Raises(details_resp) THEN ReturnNone(issued)
        ELSE IF StatusCode(details_resp) = 200
        THEN IF JsonRaises(details_resp) THEN ReturnNone(issued)
             ELSE IF Get(details_resp.body, "status", None) = "OK"
                  THEN ReturnPlace(
                         Update(place,
                                Get(details_resp.body, "result", EmptyDict)),
                         issued)
                  ELSE ReturnPlace(place, issued)
        ELSE ReturnPlace(place,
                         Append(issued, DetailsRequest(place.place_id)))

\* the details step: request, merge on success, return place; an exception
\* raised here reaches the except clause of search_place
DetailsStep(place, details_resp, requests) ==
    LET issued == Append(requests, DetailsRequest(place.place_id))
    IN  IF Raises(details_resp) THEN ReturnNone(issued)
        ELSE IF StatusCode(details_resp) = 200
        THEN IF JsonRaises(details_resp) THEN ReturnNone(issued)
             ELSE IF Get(details_resp.body, "status", None) = "OK"
                  THEN ReturnPlace(
                         Update(place,
                                Get(details_resp.body, "result", EmptyDict)),
                         issued)
                  ELSE ReturnPlace(place, issued)
        ELSE ReturnPlace(place, issued)

\* f"{org_name} {location} USA".strip()
SearchQuery(org_name, location) ==
    Strip(org_name \o <<" ">> \o location \o <<" ", "U", "S", "A">>)

SearchPlace(org_name, location, search_resp, details_resp) ==
    LET query == SearchQuery(CleanOrgName(org_name), location)
        issued == <<SearchRequest(query)>>
    IN  IF Raises(search_resp) THEN ReturnNone(issued)
        ELSE IF StatusCode(search_resp) # 200 THEN ReturnNone(issued)
        ELSE IF JsonRaises(search_resp) THEN ReturnNone(issued)
        ELSE IF NoPlacesFound(search_resp.body) THEN ReturnNone(issued)
        ELSE LET place == search_resp.body.results[1]
             IN  IF "place_id" \notin DOMAIN place THEN ReturnNone(issued)
                 ELSE DetailsStep(place, details_resp, issued)

(***************************************************************************)
(* _get_domain, _compare_websites                                          *)
(***************************************************************************)
\* a missing CSV cell (float nan)
NaN == <<"NaN">>

\* str.lower()
LowerStr(s) == IF s = <<>> THEN <<>> ELSE [i \in 1..Len(s) |-> Lower(s[i])]

HttpPrefix == <<"h","t","t","p",":","/","/">>
HttpsPrefix == <<"h","t","t","p","s",":","/","/">>

\* urlparse(url).netloc of a url that starts with http:// or https://
Netloc(url) ==
    LET from == IF StartsWith(url, HttpsPrefix) THEN Len(HttpsPrefix) + 1
                ELSE Len(HttpPrefix) + 1
        stops == {i \in from..Len(url) : url[i] \in {"/", "?", "#"}}
        to == IF stops = {} THEN Len(url)
              ELSE (CHOOSE i \in stops : \A j \in stops : i <= j) - 1
    IN  Slice(url, from, to)

\* a nan cell is truthy and has no startswith: the AttributeError is caught
GetDomain(url) ==
    IF url = <<>> \/ url = NoneS THEN <<>>
    ELSE IF url = NaN THEN <<>>
    ELSE LET full == IF StartsWith(url, HttpPrefix) \/ StartsWith(url, HttpsPrefix)
                     THEN url ELSE HttpPrefix \o url
             domain == LowerStr(Netloc(full))
         IN  IF StartsWith(domain, <<"w","w","w",".">>)
             THEN Slice(domain, 5, Len(domain))
             ELSE domain

\* "domain1 and domain2 and domain1 == domain2": the empty string when a
\* domain is empty, else the boolean
CompareWebsites(website1, website2) ==
    LET domain1 == GetDomain(website1)
        domain2 == GetDomain(website2)
    IN  IF domain1 = <<>> THEN ""
        ELSE IF domain2 = <<>> THEN ""
        ELSE IF domain1 = domain2 THEN "True" ELSE "False"

(***************************************************************************)
(* Responses of the Places API the model draws from                        *)
(***************************************************************************)
HttpRaises == [raises |-> TRUE, status_code |-> 0, parses |-> FALSE,
               body |-> EmptyDict]

HttpStatus(code) == [raises |-> FALSE, status_code |-> code, parses |-> TRUE,
                     body |-> EmptyDict]

HttpUnparseable == [raises |-> FALSE, status_code |-> 200, parses |-> FALSE,
                    body |-> EmptyDict]

HttpJson(body) == [raises |-> FALSE, status_code |-> 200, parses |-> TRUE,
                   body |-> body]

BasePlace1 == [place_id |-> <<"p", "1">>, name |-> "Acme",
               formatted_address |-> "1 Main St"]

BasePlace2 == [place_id |-> <<"p", "2">>, name |-> "Acme Two",
               formatted_address |-> "2 Side St"]

PlaceWithoutId == [name |-> "Acme"]

GoodHours == [isNone |-> FALSE,
              d |-> [periods |->
                       << [open |-> [day |-> 1, time |-> <<"0","9","0","0">>],
                           close |-> [day |-> 1, time |-> <<"1","7","0","0">>]],
                          [open |-> [day |-> 6, time |-> <<"1","0","0","0">>]] >>]]

MalformedHours == [isNone |-> FALSE,
                   d |-> [periods |->
                            << [open |-> [day |-> 1, time |-> <<"0","9","0","0">>],
                                close |-> [day |-> 1]] >>]]

DetailsResult == [name |-> "Acme HQ", formatted_phone_number |-> "555-0100",
                  website |-> <<"h","t","t","p",":","/","/","a",".","c","o">>,
                  rating |-> "4.5", user_ratings_total |-> "12",
                  business_status |-> "OPERATIONAL",
                  opening_hours |-> GoodHours]

MalformedDetailsResult == [formatted_phone_number |-> "555-0100",
                           opening_hours |-> MalformedHours]

SearchResponses ==
    { HttpRaises, HttpStatus(500), HttpUnparseable,
      HttpJson(EmptyDict),
      HttpJson([status |-> "ZERO_RESULTS", results |-> <<>>]),
      HttpJson([status |-> "OK", results |-> <<>>]),
      HttpJson([status |-> "OK"]),
      HttpJson([status |-> "REQUEST_DENIED", results |-> <<BasePlace1>>]),
      HttpJson([status |-> "OK", results |-> <<BasePlace1>>]),
      HttpJson([status |-> "OK", results |-> <<BasePlace2, BasePlace1>>]),
      HttpJson([status |-> "OK", results |-> <<PlaceWithoutId>>]) }

DetailsResponses ==
    { HttpRaises, HttpStatus(404), HttpUnparseable,
      HttpJson([status |-> "NOT_FOUND"]),
      HttpJson([status |-> "OK"]),
      HttpJson([status |-> "OK", result |-> DetailsResult]),
      HttpJson([status |-> "OK", result |-> MalformedDetailsResult]) }

(***************************************************************************)
(* Idle values of the variables a specification does not use               *)
(***************************************************************************)
NotCalled == [called |-> FALSE]

CleanIdle == c_in = <<>> /\ c_out = <<>>

HoursIdle == h_in = [isNone |-> TRUE, d |-> EmptyDict] /\ h_out = NotCalled

SearchIdle == sp_in = EmptyDict /\ sp_out = NotCalled

RunIdle ==
    /\ pc = "idle"
    /\ test_mode = FALSE
    /\ input = [columns |-> <<>>, rows |-> <<>>]
    /\ df = [columns |-> <<>>, rows |-> <<>>]
    /\ idx = 0
    /\ searched = {}
    /\ writes = <<>>
    /\ exc = None

\* all sequences over set of length at most n
SeqsUpTo(set, n) == UNION {[1..m -> set] : m \in 0..n}

(***************************************************************************)
(* SpecClean: _clean_org_name applied to a name, then to its own result    *)
(***************************************************************************)
NameAlphabet == {"a", "C", "o", " ", "."}

MaxCleanCalls == 2

InitClean ==
    /\ c_in \in SeqsUpTo(NameAlphabet, MaxNameLen)
    /\ c_out = <<>>
    /\ HoursIdle /\ SearchIdle /\ RunIdle

CleanCall ==
    /\ Len(c_out) < MaxCleanCalls
    /\ c_out' = Append(c_out, CleanOrgName(IF c_out = <<>> THEN c_in
                                           ELSE c_out[Len(c_out)]))
    /\ UNCHANGED <<c_in, hoursVars, searchVars, runVars>>

NextClean == CleanCall

SpecClean == InitClean /\ [][NextClean]_vars

(***************************************************************************)
(* SpecHours: one call of _get_operating_hours                             *)
(***************************************************************************)
OpenDays == {0, 1, 5, 6}

CloseTimes == { <<"1","7","0","0">>, <<"0","9","3","0">> }

\* 'close' entries: with a time, or without one
Closes == {[day |-> 1]} \cup {[day |-> 1, time |-> t] : t \in CloseTimes}

Periods ==
    {[open |-> [day |-> d]] : d \in OpenDays}
    \cup {[open |-> [day |-> d], close |-> c] : d \in OpenDays, c \in Closes}
    \cup {[close |-> c] : c \in Closes}

HoursInputs ==
    { [isNone |-> TRUE, d |-> EmptyDict],
      [isNone |-> FALSE, d |-> EmptyDict],
      [isNone |-> FALSE, d |-> [open_now |-> TRUE]] }
    \cup {[isNone |-> FALSE, d |-> [periods |-> ps]] :
             ps \in SeqsUpTo(Periods, MaxPeriods)}

InitHours ==
    /\ h_in \in HoursInputs
    /\ h_out = NotCalled
    /\ CleanIdle /\ SearchIdle /\ RunIdle

HoursCall ==
    /\ ~h_out.called
    /\ h_out' = [called |-> TRUE, result |-> GetOperatingHours(h_in)]
    /\ UNCHANGED <<h_in, cleanVars, searchVars, runVars>>

NextHours == HoursCall

SpecHours == InitHours /\ [][NextHours]_vars

(***************************************************************************)
(* SpecSearch: one call of search_place                                    *)
(***************************************************************************)
OrgNames == { <<"A","c","m","e">>, <<"A","&","B"," ","I","n","c",".">> }

Locations == { <<"T","X">> }

InitSearch ==
    /\ sp_in \in [org_name : OrgNames, location : Locations,
                  search_resp : SearchResponses,
                  details_resp : DetailsResponses]
    /\ sp_out = NotCalled
    /\ CleanIdle /\ HoursIdle /\ RunIdle

SearchCall ==
    /\ ~sp_out.called
    /\ sp_out' = [called |-> TRUE,
                  result |-> SearchPlace(sp_in.org_name, sp_in.location,
                                         sp_in.search_resp,
                                         sp_in.details_resp)]
    /\ UNCHANGED <<sp_in, cleanVars, hoursVars, runVars>>

NextSearch == SearchCall

SpecSearch == InitSearch /\ [][NextSearch]_vars

(***************************************************************************)
(* __init__ and process_csv                                                *)
(***************************************************************************)
\* "df = df.head(5)"
TestModeRows == 5

\* new_columns, in order
NewColumns == <<"google_maps_link", "place_id", "formatted_address",
                "phone_number", "rating", "user_ratings_total", "website",
                "business_status", "weekday_closing", "weekend_status",
                "website_matched">>

Range(seq) == {seq[i] : i \in 1..Len(seq)}

\* columns whose cells are character sequences; the others hold values the
\* code passes through whole
TextColumns == {"google_maps_link", "place_id", "website", "weekday_closing"}

\* the cell "df[col] = None" leaves
NoneCell(col) == IF col \in TextColumns THEN NoneS ELSE None

\* pd.isna(x)
IsNa(x) == x = NaN \/ x = NoneS

\* "os.path.basename(input_file)" of 'dataset.csv' behind 'enhanced_'
OutputFile == "enhanced_dataset.csv"

\* lines 182-205: head(5) in test mode, then "df[col] = None" for every new
\* column, which appends the column or overwrites the one of that name
LoadFrame(csv, mode) ==
    LET rows == IF mode /\ Len(csv.rows) > TestModeRows
                THEN SubSeq(csv.rows, 1, TestModeRows) ELSE csv.rows
        blank == [c \in Range(NewColumns) |-> NoneCell(c)]
    IN  [columns |-> csv.columns
                     \o SelectSeq(NewColumns,
                                  LAMBDA c : c \notin Range(csv.columns)),
         rows |-> IF rows = <<>> THEN <<>>
                  ELSE [i \in 1..Len(rows) |-> Update(rows[i], blank)]]

\* lines 214-222: the row is skipped; location is the city when present
RowLocation(row) ==
    LET city == Get(row, "city", <<>>)
        state == Get(row, "state", <<>>)
    IN  IF ~IsNa(city) /\ city # <<>> THEN city ELSE state

SkipsRow(row) ==
    LET org_name == Get(row, "organization_name", <<>>)
    IN  \/ IsNa(org_name) \/ org_name = <<>>
        \/ IsNa(RowLocation(row)) \/ RowLocation(row) = <<>>

MapsLinkPrefix ==
    <<"h","t","t","p","s",":","/","/","w","w","w",".","g","o","o","g","l",
      "e",".","c","o","m","/","m","a","p","s","/","p","l","a","c","e","/",
      "?","q","=","p","l","a","c","e","_","i","d",":">>

\* lines 227-245: the cells written for a matched place
MatchedCells(row, place, hours) ==
    LET csv_website == Get(row, "organization_website_url", <<>>)
        place_website == Get(place, "website", <<>>)
        website_matched ==
            IF csv_website # <<>> /\ place_website # <<>>
            THEN CompareWebsites(csv_website, place_website) ELSE "False"
    IN  [google_maps_link |-> MapsLinkPrefix \o place.place_id,
         place_id |-> place.place_id,
         formatted_address |-> Get(place, "formatted_address", None),
         phone_number |-> Get(place, "formatted_phone_number", None),
         rating |-> Get(place, "rating", None),
         user_ratings_total |-> Get(place, "user_ratings_total", None),
         website |-> place_website,
         business_status |-> Get(place, "business_status", None),
         weekday_closing |-> hours.weekday_close,
         weekend_status |-> hours.weekend_status,
         website_matched |-> website_matched]

\* the CSV files the model draws from
InputColumns == <<"organization_name", "city", "state",
                  "organization_website_url">>

RowMatchable == [organization_name |-> <<"A","c","m","e"," ","C","o">>,
                 city |-> NaN, state |-> <<"T","X">>,
                 organization_website_url |-> <<"w","w","w",".","A",".","c","o","/","x">>]

RowNoName == [organization_name |-> NaN,
              city |-> <<"A","u","s","t","i","n">>, state |-> <<"T","X">>,
              organization_website_url |-> NaN]

RowNoLocation == [organization_name |-> <<"A","c","m","e">>,
                  city |-> <<>>, state |-> NaN,
                  organization_website_url |-> NaN]

RowKinds == {RowMatchable, RowNoName, RowNoLocation}

\* an input column named like a derived one
ExtraColumn == [website |-> <<"o","l","d">>]

InputFiles ==
    {[columns |-> InputColumns, rows |-> rs] : rs \in SeqsUpTo(RowKinds, MaxRows)}
    \cup {[columns |-> Append(InputColumns, "website"),
           rows |-> IF rs = <<>> THEN <<>>
                    ELSE [i \in 1..Len(rs) |-> Update(rs[i], ExtraColumn)]] :
             rs \in SeqsUpTo(RowKinds, MaxRows)}

\* the answers of the Places API to the requests of one row
RowResponses ==
    { [search |-> HttpRaises, details |-> HttpRaises],
      [search |-> HttpStatus(500), details |-> HttpRaises],
      [search |-> HttpJson([status |-> "OK", results |-> <<BasePlace1>>]),
       details |-> HttpJson([status |-> "OK", result |-> DetailsResult])],
      [search |-> HttpJson([status |-> "OK", results |-> <<BasePlace1>>]),
       details |-> HttpJson([status |-> "OK", result |-> MalformedDetailsResult])] }

Init ==
    /\ pc = "new"
    /\ test_mode \in BOOLEAN
    /\ input \in InputFiles
    /\ df = [columns |-> <<>>, rows |-> <<>>]
    /\ idx = 0
    /\ searched = {}
    /\ writes = <<>>
    /\ exc = None
    /\ CleanIdle /\ HoursIdle /\ SearchIdle

\* MapsEnhancer.__init__
Construct ==
    /\ pc = "new"
    /\ \E api_key \in {"", "key"} :
          IF api_key = ""
          THEN pc' = "raised" /\ exc' = "credential"
          ELSE pc' = "constructed" /\ exc' = exc
    /\ UNCHANGED <<test_mode, input, df, idx, searched, writes,
                   cleanVars, hoursVars, searchVars>>

\* process_csv up to the row loop
ReadCsv ==
    /\ pc = "constructed"
    /\ \E readable \in BOOLEAN :
          IF readable
          THEN /\ df' = LoadFrame(input, test_mode)
               /\ pc' = "loop"
               /\ exc' = exc
          ELSE /\ df' = df
               /\ pc' = "raised"
               /\ exc' = "input_file"
    /\ idx' = 0
    /\ UNCHANGED <<test_mode, input, searched, writes,
                   cleanVars, hoursVars, searchVars>>

\* one iteration of "for idx, row in df.iterrows()"
ProcessRow ==
    /\ pc = "loop"
    /\ idx < Len(df.rows)
    /\ LET i == idx + 1
           row == df.rows[i]
       IN  IF SkipsRow(row)
           THEN /\ idx' = i
                /\ UNCHANGED <<pc, df, searched, exc>>
           ELSE \E api \in RowResponses :
                  LET r == SearchPlace(row.organization_name, RowLocation(row),
                                       api.search, api.details)
                      hours == GetOperatingHours(
                                  Get(r.place, "opening_hours",
                                      [isNone |-> FALSE, d |-> EmptyDict]))
                  IN  /\ searched' = searched \cup {i}
                      /\ IF ~r.found
                         THEN /\ idx' = i
                              /\ UNCHANGED <<pc, df, exc>>
                         ELSE IF hours.raised
                         THEN /\ pc' = "raised"
                              /\ exc' = "row"
                              /\ UNCHANGED <<df, idx>>
                         ELSE /\ df' = [df EXCEPT !.rows[i] =
                                          Update(row, MatchedCells(row, r.place, hours))]
                              /\ idx' = i
                              /\ UNCHANGED <<pc, exc>>
    /\ UNCHANGED <<test_mode, input, writes, cleanVars, hoursVars, searchVars>>

\* "df.to_csv(output_file, index=False)" and the except clause around it
SaveCsv ==
    /\ pc = "loop"
    /\ idx = Len(df.rows)
    /\ \E writable \in BOOLEAN :
          /\ writes' = Append(writes, [file |-> OutputFile, ok |-> writable,
                                       data |-> df])
          /\ IF writable
             THEN pc' = "done" /\ exc' = exc
             ELSE pc' = "raised" /\ exc' = "output_file"
    /\ UNCHANGED <<test_mode, input, df, idx, searched,
                   cleanVars, hoursVars, searchVars>>

Next == Construct \/ ReadCsv \/ ProcessRow \/ SaveCsv

Spec == Init /\ [][Next]_vars

(***************************************************************************)
(* Properties                                                              *)
(***************************************************************************)
\* the text search answered 200 with a parseable body, status OK and at
\* least one result
SearchGaveResults(resp) ==
    /\ ~resp.raises /\ resp.status_code = 200 /\ resp.parses
    /\ Get(resp.body, "status", None) = "OK"
    /\ Len(Get(resp.body, "results", <<>>)) >= 1

\* the text search answered 200 with a parseable body that holds no result
SearchGaveNoResults(resp) ==
    /\ ~resp.raises /\ resp.status_code = 200 /\ resp.parses
    /\ Len(Get(resp.body, "results", <<>>)) = 0

\* the details request failed: exception, non-200, unparseable body or a
\* payload status other than OK
DetailsFailed(resp) ==
    \/ resp.raises \/ resp.status_code # 200 \/ ~resp.parses
    \/ Get(resp.body, "status", None) # "OK"

RequestsTo(requests, url) == {i \in 1..Len(requests) : requests[i].url = url}

\* C1: when the text search succeeds with at least one result and the details
\* request then fails in any way (non-200, non-OK payload status, raised
\* exception, unparseable body), search_place returns the base first result,
\* never None.
C1_BaseCandidateKept ==
    (/\ sp_out.called
     /\ SearchGaveResults(sp_in.search_resp)
     /\ RequestsTo(sp_out.result.requests, "details") # {}
     /\ DetailsFailed(sp_in.details_resp))
    => (/\ sp_out.result.found
        /\ sp_out.result.place = sp_in.search_resp.body.results[1])

\* C9: a call of search_place issues at most one search request and at most
\* one details request; a details request comes only after the search request
\* and only when the search returned success with at least one result; when
\* the search returns zero results the call returns None without a details
\* request.
C9_SingleAttempt ==
    sp_out.called =>
       LET requests == sp_out.result.requests
       IN  /\ Cardinality(RequestsTo(requests, "textsearch")) <= 1
           /\ Cardinality(RequestsTo(requests, "details")) <= 1
           /\ \A i \in RequestsTo(requests, "details") :
                 /\ SearchGaveResults(sp_in.search_resp)
                 /\ \E j \in RequestsTo(requests, "textsearch") : j < i
           /\ SearchGaveNoResults(sp_in.search_resp) =>
                 /\ ~sp_out.result.found
                 /\ RequestsTo(requests, "details") = {}

\* a call whose search found a place and whose details request failed with
\* a non-200 answer: both requests were issued, in that order
C9_Witness ==
    /\ sp_out.called
    /\ SearchGaveResults(sp_in.search_resp)
    /\ ~sp_in.details_resp.raises /\ sp_in.details_resp.status_code # 200
    /\ Len(sp_out.result.requests) = 2
    /\ sp_out.result.requests[1].url = "textsearch"
    /\ sp_out.result.requests[2].url = "details"
    /\ sp_out.result.found

\* the opening-hours argument is None or has no periods
HasNoPeriods(opening_hours) ==
    \/ opening_hours.isNone
    \/ "periods" \notin DOMAIN opening_hours.d
    \/ opening_hours.d.periods = <<>>

\* C7: _get_operating_hours returns (None, None) whenever the opening-hours
\* input is absent or contains no periods, also when 'periods' is present but
\* empty; the weekend status is never "Not Operational" then.
C7_NoPeriodsGivesAbsent ==
    (h_out.called /\ HasNoPeriods(h_in))
    => (/\ ~h_out.result.raised
        /\ h_out.result.weekday_close = NoneS
        /\ h_out.result.weekend_status = None)

\* period i opens on the given day and carries a 'close'
ClosesOn(periods, i, day) ==
    /\ "open" \in DOMAIN periods[i]
    /\ "day" \in DOMAIN periods[i].open
    /\ periods[i].open.day = day
    /\ "close" \in DOMAIN periods[i]

\* the HH:MM string of a four-character close time
AsHHMM(t) == <<t[1], t[2], ":", t[3], t[4]>>

C8_Idempotent ==
    Len(c_out) >= 2 => c_out[2] = c_out[1]

\* the file that process_csv has written, if any
Written == {i \in 1..Len(writes) : writes[i].ok}

\* the derived cells of a written row are all unset
DerivedUnset(row) == \A c \in Range(NewColumns) : row[c] = NoneCell(c)

\* C2: a fault raised while processing one row (transport error, non-success
\* status, malformed place or opening-hours record) stays in that row: the
\* run goes on to the later rows and the output write; only credential and
\* input-file faults end the run.
C2_RowFaultsContained ==
    pc = "raised" => exc # "row"

\* C3: with test_mode and more than 5 input rows, exactly the first 5 rows
\* are evaluated and the remaining rows are still in the written output, with
\* their derived columns unset.
C3_TestModeKeepsRemainingRows ==
    (pc = "done" /\ test_mode /\ Len(input.rows) > TestModeRows)
    => (/\ idx = TestModeRows
        /\ searched \subseteq 1..TestModeRows
        /\ \A w \in Written :
              /\ Len(writes[w].data.rows) = Len(input.rows)
              /\ \A i \in (TestModeRows + 1)..Len(input.rows) :
                    DerivedUnset(writes[w].data.rows[i]))

\* C4: after process_csv completes, every input row is in the output in the
\* original order and every input column keeps its value in every row, also
\* an input column named like a derived column; only new columns are added.
C4_InputPreserved ==
    pc = "done" =>
       \A w \in Written :
          /\ Len(writes[w].data.rows) = Len(input.rows)
          /\ \A i \in 1..Len(input.rows) : \A c \in Range(input.columns) :
                writes[w].data.rows[i][c] = input.rows[i][c]

\* C5: when writing 'enhanced_<basename>' fails, process_csv writes the
\* records to an alternate, timestamped file name and completes without
\* raising; it raises only if that second write fails too.
C5_FallbackOnWriteFailure ==
    (\E i \in 1..Len(writes) : writes[i].file = OutputFile /\ ~writes[i].ok)
    => \/ pc = "done" /\ \E j \in Written : writes[j].file # OutputFile
       \/ \E j \in 1..Len(writes) : writes[j].file # OutputFile /\ ~writes[j].ok

\* C6: a row with an empty or missing organization_name, or with city and
\* state both empty or missing, gets no search request, keeps all derived
\* fields unset, does not stop the run, and is still in the output.
C6_SkippedRowsKept ==
    pc = "done" =>
       \A i \in 1..Len(input.rows) :
          SkipsRow(input.rows[i]) =>
             /\ i \notin searched
             /\ \A w \in Written :
                   /\ i <= Len(writes[w].data.rows)
                   /\ DerivedUnset(writes[w].data.rows[i])

====
